---- MODULE Spec2Model ----
(***************************************************************************)
(* Model of the WebApp operator (main.go): the Reconcile function of       *)
(* WebAppReconciler, run one store operation at a time against a store     *)
(* holding one WebApp, its Deployment and its Service, together with the   *)
(* users and cluster controllers that change the store around it.          *)
(***************************************************************************)
EXTENDS Integers, Sequences, FiniteSets, TLC

\* ---------------------------------------------------------------- bounds
MaxChanges == 2    \* changes users and other controllers make to the objects
MaxClock == 1      \* readings of metav1.Now() that can be told apart
MaxPasses == 4     \* the pass counter saturates here
MaxWorkers == 2    \* workers draining the work queue
MaxAdds == 2       \* the count of enqueues of one identity saturates here
MaxFailures == 9  \* the count of consecutive failed passes saturates here
MaxTampering == 1 \* out-of-band changes while the controller as a whole is followed

\* ------------------------------------------------------ program constants
RequeueInterval == 30
DefaultPort == 8080
ServicePort == 80
BackoffBase == 1
BackoffCap == 300

ReqName == "nginx-app"

\* the identities the work queue is followed for, and its workers
Identities == {ReqName, "api-app"}
Workers == 1..MaxWorkers

ReplicaCounts == {3, 5}
AvailableCounts == {0} \cup ReplicaCounts

\* WebAppSpec: image, replicas, port, env; the specs users apply
WebAppSpec ==
    {[image |-> "nginx:1.25", replicas |-> 3, port |-> 80, env |-> << >>],
     [image |-> "nginx:1.25", replicas |-> 5, port |-> 80, env |-> << >>],
     [image |-> "nginx:1.26", replicas |-> 3, port |-> 0,
      env |-> <<[name |-> "MODE", value |-> "prod"]>>]}

\* WebAppStatus of a WebApp nobody has written a status to
EmptyStatus == [availableReplicas |-> 0, conditions |-> << >>]

\* the store's answer for an absent object, and an unset local
NotFound == [kind |-> "NotFound"]
None == [kind |-> "None"]

Min(a, b) == IF a < b THEN a ELSE b

\* ---------------------------------------------------------------- state
VARIABLES
    storeWebApp,      \* the WebApp in the store, or NotFound
    storeDeployment,  \* the Deployment of that name in the store, or NotFound
    storeService,     \* the Service of that name in the store, or NotFound
    nextUid,          \* uid the store gives the next WebApp
    clock,            \* metav1.Now()
    pc,               \* position of the Reconcile pass
    webapp,           \* Reconcile's local: the WebApp as read (and its new status)
    deployment,       \* Reconcile's local: the Deployment as read (and its new replicas)
    dep,              \* Reconcile's local: the object handed to Create
    waStale,          \* the store's WebApp has a newer resourceVersion than webapp
    depStale,         \* the store's Deployment has a newer resourceVersion than deployment
    ops,              \* store operations issued by the pass, in order
    result,           \* (ctrl.Result, error) returned by the pass
    fresh,            \* the behaviour began at InitFresh and nothing has interfered since
    passes,           \* passes finished in that time (saturating)
    last,             \* the last finished pass set the replicas to the count of the spec
                      \* in the store, and nothing interfered since
    prev,             \* so did the pass before the one running, likewise
    changes,          \* changes users and other controllers have made so far
    origShape,        \* the Deployment first created for the present WebApp
    queue,            \* the work queue: identities waiting for a worker, in order
    dirty,            \* identities that need a pass
    processing,       \* identities a worker holds
    worker,           \* the identity each worker is running a pass for, or "idle"
    waiting,          \* identities whose delayed enqueue has not come due
    adds,             \* enqueues of each identity since it was last dequeued
    failures,         \* consecutive failed passes of each identity
    delay,            \* the delay of the last requeue of each identity
    seen              \* the objects as the controller's watches last saw them

reconcileVars == <<storeWebApp, storeDeployment, storeService, nextUid, clock, pc,
                   webapp, deployment, dep, waStale, depStale, ops, result, fresh,
                   passes, last, prev, changes, origShape>>

queueVars == <<queue, dirty, processing, worker, waiting, adds, failures, delay,
               seen>>

vars == <<reconcileVars, queueVars>>

storeVars == <<storeWebApp, storeDeployment, storeService, nextUid>>
localVars == <<webapp, deployment, dep, waStale, depStale>>

\* ------------------------------------------------- ctrl.Result and error
ResultDone == [Requeue |-> FALSE, RequeueAfter |-> 0, err |-> "nil"]
ResultRequeue == [Requeue |-> TRUE, RequeueAfter |-> 0, err |-> "nil"]
ResultRequeueAfter == [Requeue |-> FALSE, RequeueAfter |-> RequeueInterval, err |-> "nil"]
ResultError(e) == [Requeue |-> FALSE, RequeueAfter |-> 0, err |-> e]

Writes == {"createDeployment", "updateDeployment", "createService", "updateStatus"}

\* the store writes among a pass's operations
WritesOf(s) == SelectSeq(s, LAMBDA o : o \in Writes)

LastWrite(s) == IF WritesOf(s) = << >> THEN "none" ELSE WritesOf(s)[Len(WritesOf(s))]

\* ----------------------------------------------------------- synthesizers
Labels(name) == ("app" :> name) @@ ("managed-by" :> "webapp-operator")

\* the port of the spec, 8080 when it is unset
PortOrDefault(port) == IF port = 0 THEN DefaultPort ELSE port

\* []EnvVar to []corev1.EnvVar, entry by entry
EnvVars(env) == [i \in DOMAIN env |-> [name |-> env[i].name, value |-> env[i].value]]

\* deploymentForWebApp with Spec.Replicas left unset, which the store defaults to 1
deploymentForWebAppOneReplica(w) ==
    [kind |-> "Deployment",
     name |-> w.name,
     labels |-> Labels(w.name),
     selector |-> Labels(w.name),
     templateLabels |-> Labels(w.name),
     replicas |-> 1,
     image |-> w.spec.image,
     containerPort |-> PortOrDefault(w.spec.port),
     env |-> EnvVars(w.spec.env),
     owner |-> w.uid,
     availableReplicas |-> 0]

\* deploymentForWebApp without the fallback port
deploymentForWebAppNoDefaultPort(w) ==
    [kind |-> "Deployment",
     name |-> w.name,
     labels |-> Labels(w.name),
     selector |-> Labels(w.name),
     templateLabels |-> Labels(w.name),
     replicas |-> w.spec.replicas,
     image |-> w.spec.image,
     containerPort |-> w.spec.port,
     env |-> EnvVars(w.spec.env),
     owner |-> w.uid,
     availableReplicas |-> 0]

\* deploymentForWebApp without the call of SetControllerReference
deploymentForWebAppUnowned(w) ==
    [kind |-> "Deployment",
     name |-> w.name,
     labels |-> Labels(w.name),
     selector |-> Labels(w.name),
     templateLabels |-> Labels(w.name),
     replicas |-> w.spec.replicas,
     image |-> w.spec.image,
     containerPort |-> PortOrDefault(w.spec.port),
     env |-> EnvVars(w.spec.env),
     owner |-> 0,
     availableReplicas |-> 0]

deploymentForWebApp(w) ==
    [kind |-> "Deployment",
     name |-> w.name,
     labels |-> Labels(w.name),
     selector |-> Labels(w.name),
     templateLabels |-> Labels(w.name),
     replicas |-> w.spec.replicas,
     image |-> w.spec.image,
     containerPort |-> PortOrDefault(w.spec.port),
     env |-> EnvVars(w.spec.env),
     owner |-> w.uid,
     availableReplicas |-> 0]

\* serviceForWebApp without the call of SetControllerReference
serviceForWebAppUnowned(w) ==
    [kind |-> "Service",
     name |-> w.name,
     labels |-> Labels(w.name),
     selector |-> Labels(w.name),
     port |-> ServicePort,
     targetPort |-> PortOrDefault(w.spec.port),
     owner |-> 0]

\* serviceForWebApp selecting on the app label alone
serviceForWebAppAppSelector(w) ==
    [kind |-> "Service",
     name |-> w.name,
     labels |-> Labels(w.name),
     selector |-> ("app" :> w.name),
     port |-> ServicePort,
     targetPort |-> PortOrDefault(w.spec.port),
     owner |-> w.uid]

\* serviceForWebApp without the default for a port left unset
serviceForWebAppNoDefaultPort(w) ==
    [kind |-> "Service",
     name |-> w.name,
     labels |-> Labels(w.name),
     selector |-> Labels(w.name),
     port |-> ServicePort,
     targetPort |-> w.spec.port,
     owner |-> w.uid]

serviceForWebApp(w) ==
    [kind |-> "Service",
     name |-> w.name,
     labels |-> Labels(w.name),
     selector |-> Labels(w.name),
     port |-> ServicePort,
     targetPort |-> PortOrDefault(w.spec.port),
     owner |-> w.uid]

\* the Ready condition of STEP 5
ReadyCondition(d, w, now) ==
    [type |-> "Ready",
     status |-> IF d.availableReplicas # w.spec.replicas THEN "False" ELSE "True",
     reason |-> IF d.availableReplicas # w.spec.replicas
                THEN "DeploymentNotReady" ELSE "DeploymentReady",
     message |-> <<d.availableReplicas, w.spec.replicas>>,
     lastTransitionTime |-> now]

\* StatusFor copying Spec.Replicas of the Deployment instead of Status.AvailableReplicas
StatusForSpecReplicas(d, w, now) ==
    [availableReplicas |-> d.replicas,
     conditions |-> <<ReadyCondition(d, w, now)>>]

\* StatusFor appending the condition to the list the WebApp came with
StatusForAppending(d, w, now) ==
    [availableReplicas |-> d.availableReplicas,
     conditions |-> Append(w.status.conditions, ReadyCondition(d, w, now))]

\* STEP 5 up to the write: the status Reconcile puts on its local WebApp
StatusFor(d, w, now) ==
    [availableReplicas |-> d.availableReplicas,
     conditions |-> <<ReadyCondition(d, w, now)>>]

\* a Service of the WebApp's name that somebody else applied: no owner
\* reference, its own labels, selector and ports
ForeignService ==
    [kind |-> "Service",
     name |-> ReqName,
     labels |-> ("app" :> "legacy"),
     selector |-> ("app" :> "legacy"),
     port |-> 443,
     targetPort |-> 8443,
     owner |-> 0]

\* a Deployment of the WebApp's name that somebody else applied: no owner
\* reference, its own labels, image, port and replica count
ForeignDeployment ==
    [kind |-> "Deployment",
     name |-> ReqName,
     labels |-> ("app" :> "legacy"),
     selector |-> ("app" :> "legacy"),
     templateLabels |-> ("app" :> "legacy"),
     replicas |-> 5,
     image |-> "legacy:1",
     containerPort |-> 9090,
     env |-> << >>,
     owner |-> 0,
     availableReplicas |-> 0]

\* the WebApp the store holds for a user who applied spec, given uid
NewWebApp(spec, uid) ==
    [kind |-> "WebApp", name |-> ReqName, uid |-> uid, spec |-> spec,
     status |-> EmptyStatus]

\* ----------------------------------------------------------------- Init
\* the work queue of a controller that has just started
QueueInit ==
    /\ queue = << >>
    /\ dirty = {}
    /\ processing = {}
    /\ worker = [w \in Workers |-> "idle"]
    /\ waiting = {}
    /\ adds = [id \in Identities |-> 0]
    /\ failures = [id \in Identities |-> 0]
    /\ delay = [id \in Identities |-> 0]
    /\ seen = [webapp |-> NotFound, deployment |-> NotFound, service |-> NotFound]

\* what Init and InitFresh share
InitRest ==
    /\ storeDeployment = NotFound
    /\ storeService = NotFound
    /\ clock = 0
    /\ pc = "idle"
    /\ webapp = None
    /\ deployment = None
    /\ dep = None
    /\ waStale = FALSE
    /\ depStale = FALSE
    /\ ops = << >>
    /\ result = ResultDone
    /\ passes = 0
    /\ last = FALSE
    /\ prev = FALSE
    /\ changes = 0
    /\ origShape = None
    /\ QueueInit

\* The operator starts on a store that holds no WebApp of the name, or one
\* that a user has applied and nothing has been created for.
Init ==
    /\ \/ /\ storeWebApp = NotFound
          /\ nextUid = 1
       \/ /\ \E spec \in WebAppSpec : storeWebApp = NewWebApp(spec, 1)
          /\ nextUid = 2
    /\ fresh = FALSE
    /\ InitRest

\* The scenario of a WebApp just applied, followed from then on for as long as
\* nobody but the operator and the Deployment controller touches the objects.
InitFresh ==
    /\ \E spec \in WebAppSpec : storeWebApp = NewWebApp(spec, 1)
    /\ nextUid = 2
    /\ fresh = TRUE
    /\ InitRest

\* --------------------------------------------------- bookkeeping helpers
\* something other than the pass changed what the pass works on
Interfere ==
    /\ fresh' = FALSE
    /\ passes' = 0
    /\ last' = FALSE
    /\ prev' = FALSE

\* the pass returns res
Return(res) ==
    /\ pc' = "done"
    /\ result' = res
    /\ fresh' = (fresh /\ res.err = "nil")
    /\ passes' = IF fresh /\ res.err = "nil" THEN Min(passes + 1, MaxPasses) ELSE 0
    /\ last' = (res.err = "nil" /\ LastWrite(ops') = "updateDeployment" /\ ~waStale)
    /\ UNCHANGED <<prev, changes>>

\* the pass moves on to its next store operation
Goto(l) ==
    /\ pc' = l
    /\ UNCHANGED <<result, fresh, passes, last, prev, changes>>

\* a user or another controller changes an object
Change ==
    /\ pc # "done"
    /\ changes < MaxChanges
    /\ changes' = changes + 1

\* the cluster reports on an object
Report ==
    /\ pc # "done"
    /\ UNCHANGED changes

\* a change to the store's WebApp outdates the copy a pass holds
OutdateWebApp == waStale' = (webapp.kind = "WebApp")

\* a change to the store's Deployment outdates the copy a pass holds
OutdateDeployment == depStale' = (deployment.kind = "Deployment")

\* ------------------------------------------------------------- the user
\* kubectl apply of a new WebApp
UserCreateWebApp(spec) ==
    /\ storeWebApp = NotFound
    /\ storeWebApp' = NewWebApp(spec, nextUid)
    /\ nextUid' = nextUid + 1
    /\ OutdateWebApp
    /\ Interfere
    /\ Change
    /\ origShape' = None
    /\ UNCHANGED <<storeDeployment, storeService, clock, pc, webapp, deployment,
                   dep, depStale, ops, result>>
    /\ UNCHANGED queueVars

\* kubectl apply / patch of the spec of the WebApp
UserUpdateSpec(spec) ==
    /\ storeWebApp # NotFound
    /\ spec # storeWebApp.spec
    /\ storeWebApp' = [storeWebApp EXCEPT !.spec = spec]
    /\ OutdateWebApp
    /\ Interfere
    /\ Change
    /\ UNCHANGED <<storeDeployment, storeService, nextUid, clock, pc, webapp,
                   deployment, dep, depStale, ops, result, origShape>>
    /\ UNCHANGED queueVars

\* kubectl delete of the WebApp
UserDeleteWebApp ==
    /\ storeWebApp # NotFound
    /\ storeWebApp' = NotFound
    /\ OutdateWebApp
    /\ Interfere
    /\ Change
    /\ origShape' = None
    /\ UNCHANGED <<storeDeployment, storeService, nextUid, clock, pc, webapp,
                   deployment, dep, depStale, ops, result>>
    /\ UNCHANGED queueVars

\* kubectl delete deployment: the Deployment is removed out-of-band
DeleteDeployment ==
    /\ storeDeployment # NotFound
    /\ storeDeployment' = NotFound
    /\ OutdateDeployment
    /\ Interfere
    /\ Change
    /\ UNCHANGED <<storeWebApp, storeService, nextUid, clock, pc, webapp, deployment,
                   dep, waStale, ops, result, origShape>>
    /\ UNCHANGED queueVars

\* kubectl scale deployment: the replica count is changed out-of-band
ScaleDeployment(n) ==
    /\ storeDeployment # NotFound
    /\ n # storeDeployment.replicas
    /\ storeDeployment' = [storeDeployment EXCEPT !.replicas = n]
    /\ OutdateDeployment
    /\ Interfere
    /\ Change
    /\ UNCHANGED <<storeWebApp, storeService, nextUid, clock, pc, webapp, deployment,
                   dep, waStale, ops, result, origShape>>
    /\ UNCHANGED queueVars

\* kubectl delete service: the Service is removed out-of-band
DeleteService ==
    /\ storeService # NotFound
    /\ storeService' = NotFound
    /\ Interfere
    /\ Change
    /\ UNCHANGED <<storeWebApp, storeDeployment, nextUid, clock, pc, localVars, ops,
                   result, origShape>>
    /\ UNCHANGED queueVars

\* kubectl apply of a Service of the WebApp's name, not made by the operator
ApplyService ==
    /\ storeService = NotFound
    /\ storeService' = ForeignService
    /\ Interfere
    /\ Change
    /\ UNCHANGED <<storeWebApp, storeDeployment, nextUid, clock, pc, localVars, ops,
                   result, origShape>>
    /\ UNCHANGED queueVars

\* kubectl apply of a Deployment of the WebApp's name, not made by the operator
ApplyDeployment ==
    /\ storeDeployment = NotFound
    /\ storeDeployment' = ForeignDeployment
    /\ OutdateDeployment
    /\ Interfere
    /\ Change
    /\ UNCHANGED <<storeWebApp, storeService, nextUid, clock, pc, webapp, deployment,
                   dep, waStale, ops, result, origShape>>
    /\ UNCHANGED queueVars

\* ---------------------------------------------------------- the cluster
\* the Deployment controller reports how many replicas are available
ReportAvailable(n) ==
    /\ storeDeployment # NotFound
    /\ n \in {0, storeDeployment.replicas}
    /\ n # storeDeployment.availableReplicas
    /\ storeDeployment' = [storeDeployment EXCEPT !.availableReplicas = n]
    /\ OutdateDeployment
    /\ Report
    /\ UNCHANGED <<storeWebApp, storeService, nextUid, clock, pc, webapp, deployment,
                   dep, waStale, ops, result, fresh, passes, last, prev, origShape>>
    /\ UNCHANGED queueVars

\* does the owner reference o point at the WebApp in the store
OwnerAlive(o) == storeWebApp # NotFound /\ storeWebApp.uid = o

\* the garbage collector removes a Deployment whose owner reference points at
\* a WebApp that is gone
CollectDeployment ==
    /\ storeDeployment # NotFound
    /\ storeDeployment.owner # 0
    /\ ~OwnerAlive(storeDeployment.owner)
    /\ storeDeployment' = NotFound
    /\ OutdateDeployment
    /\ Interfere
    /\ Report
    /\ UNCHANGED <<storeWebApp, storeService, nextUid, clock, pc, webapp, deployment,
                   dep, waStale, ops, result, origShape>>
    /\ UNCHANGED queueVars

\* the garbage collector removes a Service whose owner reference points at a
\* WebApp that is gone
CollectService ==
    /\ storeService # NotFound
    /\ storeService.owner # 0
    /\ ~OwnerAlive(storeService.owner)
    /\ storeService' = NotFound
    /\ Interfere
    /\ Report
    /\ UNCHANGED <<storeWebApp, storeDeployment, nextUid, clock, pc, localVars, ops,
                   result, origShape>>
    /\ UNCHANGED queueVars

\* time passes
Tick ==
    /\ clock < MaxClock
    /\ clock' = clock + 1
    /\ pc # "done"
    /\ UNCHANGED <<storeVars, pc, localVars, ops, result, fresh, passes, last, prev,
                   changes, origShape>>
    /\ UNCHANGED queueVars

\* ------------------------------------------------------------ Reconcile
\* the controller calls Reconcile(ctx, req)
StartReconcile ==
    /\ pc = "idle"
    /\ pc' = "GetWebApp"
    /\ prev' = last
    /\ last' = FALSE
    /\ UNCHANGED <<storeVars, clock, localVars, ops, result, fresh, passes, changes,
                   origShape>>
    /\ UNCHANGED queueVars

\* Reconcile has returned; its locals are gone
EndReconcile ==
    /\ pc = "done"
    /\ pc' = "idle"
    /\ webapp' = None
    /\ deployment' = None
    /\ dep' = None
    /\ waStale' = FALSE
    /\ depStale' = FALSE
    /\ ops' = << >>
    /\ result' = ResultDone
    /\ UNCHANGED <<storeVars, clock, fresh, passes, last, prev, changes, origShape>>
    /\ UNCHANGED queueVars

\* GetWebApp without the errors.IsNotFound test: NotFound is returned as an error
GetWebAppNotFoundIsError ==
    /\ pc = "GetWebApp"
    /\ ops' = Append(ops, "getWebApp")
    /\ \/ /\ storeWebApp = NotFound
          /\ Return(ResultError("NotFound"))
          /\ UNCHANGED localVars
       \/ /\ Return(ResultError("StoreError"))
          /\ UNCHANGED localVars
       \/ /\ storeWebApp # NotFound
          /\ webapp' = storeWebApp
          /\ waStale' = FALSE
          /\ Goto("GetDeployment")
          /\ UNCHANGED <<deployment, dep, depStale>>
    /\ UNCHANGED <<storeVars, clock, origShape>>
    /\ UNCHANGED queueVars

\* STEP 1: r.Get of the WebApp
GetWebApp ==
    /\ pc = "GetWebApp"
    /\ ops' = Append(ops, "getWebApp")
    /\ \/ /\ storeWebApp = NotFound
          /\ Return(ResultDone)
          /\ UNCHANGED localVars
       \/ /\ Return(ResultError("StoreError"))
          /\ UNCHANGED localVars
       \/ /\ storeWebApp # NotFound
          /\ webapp' = storeWebApp
          /\ waStale' = FALSE
          /\ Goto("GetDeployment")
          /\ UNCHANGED <<deployment, dep, depStale>>
    /\ UNCHANGED <<storeVars, clock, origShape>>
    /\ UNCHANGED queueVars

\* GetDeployment treating a different image as drift too
GetDeploymentSyncingImage ==
    /\ pc = "GetDeployment"
    /\ ops' = Append(ops, "getDeployment")
    /\ \/ /\ storeDeployment = NotFound
          /\ dep' = deploymentForWebApp(webapp)
          /\ Goto("CreateDeployment")
          /\ UNCHANGED <<webapp, deployment, waStale, depStale>>
       \/ /\ Return(ResultError("StoreError"))
          /\ UNCHANGED localVars
       \/ /\ storeDeployment # NotFound
          /\ depStale' = FALSE
          /\ IF \/ storeDeployment.replicas # webapp.spec.replicas
                \/ storeDeployment.image # webapp.spec.image
             THEN /\ deployment' = [storeDeployment EXCEPT !.replicas = webapp.spec.replicas,
                                                          !.image = webapp.spec.image]
                  /\ Goto("UpdateDeployment")
             ELSE /\ deployment' = storeDeployment
                  /\ Goto("GetService")
          /\ UNCHANGED <<webapp, dep, waStale>>
    /\ UNCHANGED <<storeVars, clock, origShape>>
    /\ UNCHANGED queueVars

\* GetDeployment taking a Deployment that another owns or nobody owns under
\* the WebApp's ownership, by an Update that sets the owner reference
GetDeploymentAdopting ==
    /\ pc = "GetDeployment"
    /\ ops' = Append(ops, "getDeployment")
    /\ \/ /\ storeDeployment = NotFound
          /\ dep' = deploymentForWebApp(webapp)
          /\ Goto("CreateDeployment")
          /\ UNCHANGED <<webapp, deployment, waStale, depStale>>
       \/ /\ Return(ResultError("StoreError"))
          /\ UNCHANGED localVars
       \/ /\ storeDeployment # NotFound
          /\ depStale' = FALSE
          /\ IF \/ storeDeployment.replicas # webapp.spec.replicas
                \/ storeDeployment.owner # webapp.uid
             THEN /\ deployment' = [storeDeployment EXCEPT !.replicas = webapp.spec.replicas,
                                                          !.owner = webapp.uid]
                  /\ Goto("UpdateDeployment")
             ELSE /\ deployment' = storeDeployment
                  /\ Goto("GetService")
          /\ UNCHANGED <<webapp, dep, waStale>>
    /\ UNCHANGED <<storeVars, clock, origShape>>
    /\ UNCHANGED queueVars

\* STEP 2 and STEP 3 up to the write: r.Get of the Deployment, then the
\* choice between Create, Update and going on
GetDeployment ==
    /\ pc = "GetDeployment"
    /\ ops' = Append(ops, "getDeployment")
    /\ \/ /\ storeDeployment = NotFound
          /\ dep' = deploymentForWebApp(webapp)
          /\ Goto("CreateDeployment")
          /\ UNCHANGED <<webapp, deployment, waStale, depStale>>
       \/ /\ Return(ResultError("StoreError"))
          /\ UNCHANGED localVars
       \/ /\ storeDeployment # NotFound
          /\ depStale' = FALSE
          /\ IF storeDeployment.replicas # webapp.spec.replicas
             THEN /\ deployment' = [storeDeployment EXCEPT !.replicas = webapp.spec.replicas]
                  /\ Goto("UpdateDeployment")
             ELSE /\ deployment' = storeDeployment
                  /\ Goto("GetService")
          /\ UNCHANGED <<webapp, dep, waStale>>
    /\ UNCHANGED <<storeVars, clock, origShape>>
    /\ UNCHANGED queueVars

\* CreateDeployment without the return after a successful Create
CreateDeploymentFallsThrough ==
    /\ pc = "CreateDeployment"
    /\ ops' = Append(ops, "createDeployment")
    /\ \/ /\ storeDeployment = NotFound
          /\ storeDeployment' = dep
          /\ origShape' = IF origShape # None /\ origShape.owner = dep.owner
                          THEN origShape ELSE dep
          /\ deployment' = dep
          /\ depStale' = FALSE
          /\ Goto("GetService")
          /\ UNCHANGED <<webapp, dep, waStale>>
       \/ /\ storeDeployment # NotFound
          /\ Return(ResultError("AlreadyExists"))
          /\ UNCHANGED <<storeDeployment, origShape, localVars>>
       \/ /\ Return(ResultError("StoreError"))
          /\ UNCHANGED <<storeDeployment, origShape, localVars>>
    /\ UNCHANGED <<storeWebApp, storeService, nextUid, clock>>
    /\ UNCHANGED queueVars

\* CreateDeployment clearing the status of the WebApp along with the Create
CreateDeploymentMarkingNotReady ==
    /\ pc = "CreateDeployment"
    /\ ops' = Append(ops, "createDeployment")
    /\ \/ /\ storeDeployment = NotFound
          /\ storeDeployment' = dep
          /\ storeWebApp' = IF storeWebApp = NotFound THEN storeWebApp
                            ELSE [storeWebApp EXCEPT !.status = EmptyStatus]
          /\ origShape' = IF origShape # None /\ origShape.owner = dep.owner
                          THEN origShape ELSE dep
          /\ Return(ResultRequeue)
       \/ /\ storeDeployment # NotFound
          /\ Return(ResultError("AlreadyExists"))
          /\ UNCHANGED <<storeWebApp, storeDeployment, origShape>>
       \/ /\ Return(ResultError("StoreError"))
          /\ UNCHANGED <<storeWebApp, storeDeployment, origShape>>
    /\ UNCHANGED <<storeService, nextUid, clock, localVars>>
    /\ UNCHANGED queueVars

\* STEP 2: r.Create of the Deployment
CreateDeployment ==
    /\ pc = "CreateDeployment"
    /\ ops' = Append(ops, "createDeployment")
    /\ \/ /\ storeDeployment = NotFound
          /\ storeDeployment' = dep
          /\ origShape' = IF origShape # None /\ origShape.owner = dep.owner
                          THEN origShape ELSE dep
          /\ Return(ResultRequeue)
       \/ /\ storeDeployment # NotFound
          /\ Return(ResultError("AlreadyExists"))
          /\ UNCHANGED <<storeDeployment, origShape>>
       \/ /\ Return(ResultError("StoreError"))
          /\ UNCHANGED <<storeDeployment, origShape>>
    /\ UNCHANGED <<storeWebApp, storeService, nextUid, clock, localVars>>
    /\ UNCHANGED queueVars

\* UpdateDeployment returning the periodic directive after the Update
UpdateDeploymentPeriodic ==
    /\ pc = "UpdateDeployment"
    /\ ops' = Append(ops, "updateDeployment")
    /\ \/ /\ storeDeployment # NotFound
          /\ ~depStale
          /\ storeDeployment' = deployment
          /\ Return(ResultRequeueAfter)
       \/ /\ storeDeployment # NotFound
          /\ depStale
          /\ Return(ResultError("Conflict"))
          /\ UNCHANGED storeDeployment
       \/ /\ storeDeployment = NotFound
          /\ Return(ResultError("NotFound"))
          /\ UNCHANGED storeDeployment
       \/ /\ Return(ResultError("StoreError"))
          /\ UNCHANGED storeDeployment
    /\ UNCHANGED <<storeWebApp, storeService, nextUid, clock, localVars, origShape>>
    /\ UNCHANGED queueVars

\* UpdateDeployment passing the error through client.IgnoreNotFound
UpdateDeploymentIgnoringNotFound ==
    /\ pc = "UpdateDeployment"
    /\ ops' = Append(ops, "updateDeployment")
    /\ \/ /\ storeDeployment # NotFound
          /\ ~depStale
          /\ storeDeployment' = deployment
          /\ Return(ResultRequeue)
       \/ /\ storeDeployment # NotFound
          /\ depStale
          /\ Return(ResultError("Conflict"))
          /\ UNCHANGED storeDeployment
       \/ /\ storeDeployment = NotFound
          /\ Return(ResultRequeue)
          /\ UNCHANGED storeDeployment
       \/ /\ Return(ResultError("StoreError"))
          /\ UNCHANGED storeDeployment
    /\ UNCHANGED <<storeWebApp, storeService, nextUid, clock, localVars, origShape>>
    /\ UNCHANGED queueVars

\* STEP 3: r.Update of the Deployment
UpdateDeployment ==
    /\ pc = "UpdateDeployment"
    /\ ops' = Append(ops, "updateDeployment")
    /\ \/ /\ storeDeployment # NotFound
          /\ ~depStale
          /\ storeDeployment' = deployment
          /\ Return(ResultRequeue)
       \/ /\ storeDeployment # NotFound
          /\ depStale
          /\ Return(ResultError("Conflict"))
          /\ UNCHANGED storeDeployment
       \/ /\ storeDeployment = NotFound
          /\ Return(ResultError("NotFound"))
          /\ UNCHANGED storeDeployment
       \/ /\ Return(ResultError("StoreError"))
          /\ UNCHANGED storeDeployment
    /\ UNCHANGED <<storeWebApp, storeService, nextUid, clock, localVars, origShape>>
    /\ UNCHANGED queueVars

\* GetService bringing a Service that differs from the synthesized one up to date
GetServiceSyncingShape ==
    /\ pc = "GetService"
    /\ ops' = Append(ops, "getService")
    /\ \/ /\ storeService = NotFound
          /\ Goto("CreateService")
          /\ UNCHANGED <<storeVars, localVars>>
       \/ /\ Return(ResultError("StoreError"))
          /\ UNCHANGED <<storeVars, localVars>>
       \/ /\ storeService # NotFound
          /\ storeService # serviceForWebApp(webapp)
          /\ storeService' = serviceForWebApp(webapp)
          /\ Return(ResultRequeue)
          /\ UNCHANGED <<storeWebApp, storeDeployment, nextUid, localVars>>
       \/ /\ storeService = serviceForWebApp(webapp)
          /\ webapp' = [webapp EXCEPT !.status = StatusFor(deployment, webapp, clock)]
          /\ Goto("UpdateStatus")
          /\ UNCHANGED <<storeVars, deployment, dep, waStale, depStale>>
    /\ UNCHANGED <<clock, origShape>>
    /\ UNCHANGED queueVars

\* STEP 4 and STEP 5 up to the write: r.Get of the Service, then either
\* Create or the new status on the local WebApp
GetService ==
    /\ pc = "GetService"
    /\ ops' = Append(ops, "getService")
    /\ \/ /\ storeService = NotFound
          /\ Goto("CreateService")
          /\ UNCHANGED localVars
       \/ /\ Return(ResultError("StoreError"))
          /\ UNCHANGED localVars
       \/ /\ storeService # NotFound
          /\ webapp' = [webapp EXCEPT !.status = StatusFor(deployment, webapp, clock)]
          /\ Goto("UpdateStatus")
          /\ UNCHANGED <<deployment, dep, waStale, depStale>>
    /\ UNCHANGED <<storeVars, clock, origShape>>
    /\ UNCHANGED queueVars

\* CreateService asking for a requeue along with the error of a failed Create
CreateServiceRequeueOnError ==
    /\ pc = "CreateService"
    /\ ops' = Append(ops, "createService")
    /\ \/ /\ storeService = NotFound
          /\ storeService' = serviceForWebApp(webapp)
          /\ Return(ResultRequeue)
       \/ /\ storeService # NotFound
          /\ Return([Requeue |-> TRUE, RequeueAfter |-> 0, err |-> "AlreadyExists"])
          /\ UNCHANGED storeService
       \/ /\ Return([Requeue |-> TRUE, RequeueAfter |-> 0, err |-> "StoreError"])
          /\ UNCHANGED storeService
    /\ UNCHANGED <<storeWebApp, storeDeployment, nextUid, clock, localVars, origShape>>
    /\ UNCHANGED queueVars

\* STEP 4: r.Create of the Service
CreateService ==
    /\ pc = "CreateService"
    /\ ops' = Append(ops, "createService")
    /\ \/ /\ storeService = NotFound
          /\ storeService' = serviceForWebApp(webapp)
          /\ Return(ResultRequeue)
       \/ /\ storeService # NotFound
          /\ Return(ResultError("AlreadyExists"))
          /\ UNCHANGED storeService
       \/ /\ Return(ResultError("StoreError"))
          /\ UNCHANGED storeService
    /\ UNCHANGED <<storeWebApp, storeDeployment, nextUid, clock, localVars, origShape>>
    /\ UNCHANGED queueVars

\* UpdateStatus answering a Conflict with a plain requeue instead of the error
UpdateStatusRequeueOnConflict ==
    /\ pc = "UpdateStatus"
    /\ ops' = Append(ops, "updateStatus")
    /\ \/ /\ storeWebApp # NotFound
          /\ ~waStale
          /\ storeWebApp' = [storeWebApp EXCEPT !.status = webapp.status]
          /\ Return(ResultRequeueAfter)
       \/ /\ storeWebApp # NotFound
          /\ waStale
          /\ Return(ResultRequeue)
          /\ UNCHANGED storeWebApp
       \/ /\ storeWebApp = NotFound
          /\ Return(ResultError("NotFound"))
          /\ UNCHANGED storeWebApp
       \/ /\ Return(ResultError("StoreError"))
          /\ UNCHANGED storeWebApp
    /\ UNCHANGED <<storeDeployment, storeService, nextUid, clock, localVars, origShape>>
    /\ UNCHANGED queueVars

\* UpdateStatus asking for an immediate requeue while the Workload is not ready
UpdateStatusRequeueWhileNotReady ==
    /\ pc = "UpdateStatus"
    /\ ops' = Append(ops, "updateStatus")
    /\ \/ /\ storeWebApp # NotFound
          /\ ~waStale
          /\ storeWebApp' = [storeWebApp EXCEPT !.status = webapp.status]
          /\ Return(IF webapp.status.conditions[1].status = "True"
                    THEN ResultRequeueAfter ELSE ResultRequeue)
       \/ /\ storeWebApp # NotFound
          /\ waStale
          /\ Return(ResultError("Conflict"))
          /\ UNCHANGED storeWebApp
       \/ /\ storeWebApp = NotFound
          /\ Return(ResultError("NotFound"))
          /\ UNCHANGED storeWebApp
       \/ /\ Return(ResultError("StoreError"))
          /\ UNCHANGED storeWebApp
    /\ UNCHANGED <<storeDeployment, storeService, nextUid, clock, localVars, origShape>>
    /\ UNCHANGED queueVars

\* UpdateStatus writing the whole object with r.Update, after the port default
\* has been filled in on the local copy
UpdateStatusWritingDefaults ==
    /\ pc = "UpdateStatus"
    /\ ops' = Append(ops, "updateStatus")
    /\ \/ /\ storeWebApp # NotFound
          /\ ~waStale
          /\ storeWebApp' = [webapp EXCEPT !.spec.port = PortOrDefault(webapp.spec.port)]
          /\ Return(ResultRequeueAfter)
       \/ /\ storeWebApp # NotFound
          /\ waStale
          /\ Return(ResultError("Conflict"))
          /\ UNCHANGED storeWebApp
       \/ /\ storeWebApp = NotFound
          /\ Return(ResultError("NotFound"))
          /\ UNCHANGED storeWebApp
       \/ /\ Return(ResultError("StoreError"))
          /\ UNCHANGED storeWebApp
    /\ UNCHANGED <<storeDeployment, storeService, nextUid, clock, localVars, origShape>>
    /\ UNCHANGED queueVars

\* UpdateStatus against a store that takes the write whatever version of the
\* WebApp it was computed from
UpdateStatusUnversioned ==
    /\ pc = "UpdateStatus"
    /\ ops' = Append(ops, "updateStatus")
    /\ \/ /\ storeWebApp # NotFound
          /\ storeWebApp' = [storeWebApp EXCEPT !.status = webapp.status]
          /\ Return(ResultRequeueAfter)
       \/ /\ storeWebApp = NotFound
          /\ Return(ResultError("NotFound"))
          /\ UNCHANGED storeWebApp
       \/ /\ Return(ResultError("StoreError"))
          /\ UNCHANGED storeWebApp
    /\ UNCHANGED <<storeDeployment, storeService, nextUid, clock, localVars, origShape>>
    /\ UNCHANGED queueVars

\* STEP 5: r.Status().Update of the WebApp
UpdateStatus ==
    /\ pc = "UpdateStatus"
    /\ ops' = Append(ops, "updateStatus")
    /\ \/ /\ storeWebApp # NotFound
          /\ ~waStale
          /\ storeWebApp' = [storeWebApp EXCEPT !.status = webapp.status]
          /\ Return(ResultRequeueAfter)
       \/ /\ storeWebApp # NotFound
          /\ waStale
          /\ Return(ResultError("Conflict"))
          /\ UNCHANGED storeWebApp
       \/ /\ storeWebApp = NotFound
          /\ Return(ResultError("NotFound"))
          /\ UNCHANGED storeWebApp
       \/ /\ Return(ResultError("StoreError"))
          /\ UNCHANGED storeWebApp
    /\ UNCHANGED <<storeDeployment, storeService, nextUid, clock, localVars, origShape>>
    /\ UNCHANGED queueVars

Reconcile ==
    \/ GetWebApp
    \/ GetDeployment
    \/ CreateDeployment
    \/ UpdateDeployment
    \/ GetService
    \/ CreateService
    \/ UpdateStatus

\* -------------------------------------------------------- specification
Next ==
    \/ StartReconcile
    \/ Reconcile
    \/ EndReconcile
    \/ \E spec \in WebAppSpec : UserCreateWebApp(spec)
    \/ \E spec \in WebAppSpec : UserUpdateSpec(spec)
    \/ UserDeleteWebApp
    \/ DeleteDeployment
    \/ \E n \in ReplicaCounts : ScaleDeployment(n)
    \/ DeleteService
    \/ ApplyService
    \/ \E n \in AvailableCounts : ReportAvailable(n)
    \/ CollectDeployment
    \/ CollectService
    \/ Tick

Spec == Init /\ [][Next]_vars

\* the reconciler and the Deployment controller alone
NextFresh ==
    \/ StartReconcile
    \/ GetWebApp
    \/ GetDeployment
    \/ CreateDeployment
    \/ GetService
    \/ CreateService
    \/ UpdateStatus
    \/ EndReconcile
    \/ \E n \in AvailableCounts : ReportAvailable(n)
    \/ Tick

SpecFresh == InitFresh /\ [][NextFresh]_vars

\* Deletion and its cascade: users, the garbage collector and the reconciler,
\* with the clock and the Deployment controller's reports left out. The garbage
\* collector keeps running, and a pass that has returned is over.
NextCascade ==
    \/ StartReconcile
    \/ GetWebApp
    \/ GetDeployment
    \/ CreateDeployment
    \/ UpdateDeployment
    \/ GetService
    \/ CreateService
    \/ UpdateStatus
    \/ EndReconcile
    \/ \E spec \in WebAppSpec : UserCreateWebApp(spec)
    \/ \E spec \in WebAppSpec : UserUpdateSpec(spec)
    \/ UserDeleteWebApp
    \/ DeleteDeployment
    \/ \E n \in ReplicaCounts : ScaleDeployment(n)
    \/ DeleteService
    \/ ApplyService
    \/ CollectDeployment
    \/ CollectService

SpecCascade ==
    /\ Init
    /\ [][NextCascade]_vars
    /\ WF_vars(EndReconcile)
    /\ SF_vars(CollectDeployment)
    /\ SF_vars(CollectService)

\* A cluster in which somebody else applies a Deployment and a Service of the
\* WebApp's name, and in which a WebApp is deleted and applied anew while what
\* the old one owned is still there: the reconciler, the Deployment controller
\* and those users.
NextForeign ==
    \/ StartReconcile
    \/ Reconcile
    \/ EndReconcile
    \/ ApplyDeployment
    \/ ApplyService
    \/ DeleteDeployment
    \/ \E spec \in WebAppSpec : UserCreateWebApp(spec)
    \/ UserDeleteWebApp
    \/ \E n \in AvailableCounts : ReportAvailable(n)

SpecForeign == Init /\ [][NextForeign]_vars

\* --------------------------------------------------------- the work queue
\* what a pass can hand back to the worker that ran it
PassResults == {ResultDone, ResultRequeue, ResultRequeueAfter, ResultError("StoreError")}

\* Enqueue without the test for an identity that is already pending
EnqueueNoCoalescing(id) ==
    /\ dirty' = dirty \cup {id}
    /\ queue' = IF id \in processing THEN queue ELSE Append(queue, id)
    /\ adds' = [adds EXCEPT ![id] = Min(@ + 1, MaxAdds)]

\* Enqueue without the test for an identity a worker holds
EnqueueWhileProcessing(id) ==
    /\ dirty' = dirty \cup {id}
    /\ queue' = IF id \in dirty THEN queue ELSE Append(queue, id)
    /\ adds' = [adds EXCEPT ![id] = Min(@ + 1, MaxAdds)]

\* enqueue(identity): a no-op for an identity already pending; deferred, by the
\* dirty mark alone, for an identity a worker holds
Enqueue(id) ==
    /\ dirty' = dirty \cup {id}
    /\ queue' = IF id \in dirty \/ id \in processing THEN queue ELSE Append(queue, id)
    /\ adds' = [adds EXCEPT ![id] = Min(@ + 1, MaxAdds)]

\* a change notification for the WebApp id, or for a dependent it owns
Notify(id) ==
    /\ Enqueue(id)
    /\ UNCHANGED <<processing, worker, waiting, failures, delay, seen, reconcileVars>>

\* the delay of a requeue of id is over
TimerFires(id) ==
    /\ id \in waiting
    /\ waiting' = waiting \ {id}
    /\ Enqueue(id)
    /\ UNCHANGED <<processing, worker, failures, delay, seen, reconcileVars>>

\* dequeue(): idle worker w takes the identity at the head of the queue
Take(w) ==
    /\ worker[w] = "idle"
    /\ queue # << >>
    /\ worker' = [worker EXCEPT ![w] = Head(queue)]
    /\ queue' = Tail(queue)
    /\ processing' = processing \cup {Head(queue)}
    /\ dirty' = dirty \ {Head(queue)}
    /\ adds' = [adds EXCEPT ![Head(queue)] = 0]
    /\ UNCHANGED <<waiting, failures, delay, seen>>

\* a worker of the Scheduler takes an identity
Dequeue(w) ==
    /\ Take(w)
    /\ UNCHANGED reconcileVars

\* the retry delay after n consecutive failures before this one
Backoff(n) == Min(BackoffBase * 2^n, BackoffCap)

\* the delay the Scheduler gives the requeue that result res asks for
DelayFor(res, n) ==
    IF res.err # "nil" THEN Backoff(n)
    ELSE IF res.RequeueAfter > 0 THEN res.RequeueAfter
    ELSE 0

\* Honour with a retry ceiling: after the third failure in a row the identity
\* is not requeued
HonourGivingUp(w, res) ==
    /\ worker[w] # "idle"
    /\ waiting' = IF res = ResultDone \/ (res.err # "nil" /\ failures[worker[w]] >= 3)
                  THEN waiting ELSE waiting \cup {worker[w]}
    /\ delay' = [delay EXCEPT ![worker[w]] = DelayFor(res, failures[worker[w]])]
    /\ failures' = [failures EXCEPT ![worker[w]] =
                       IF res.err # "nil" THEN Min(@ + 1, MaxFailures) ELSE 0]
    /\ processing' = processing \ {worker[w]}
    /\ queue' = IF worker[w] \in dirty THEN Append(queue, worker[w]) ELSE queue
    /\ worker' = [worker EXCEPT ![w] = "idle"]
    /\ UNCHANGED <<dirty, adds, seen>>

\* Honour keeping the count of failures when a pass succeeds
HonourKeepingCount(w, res) ==
    /\ worker[w] # "idle"
    /\ waiting' = IF res = ResultDone THEN waiting ELSE waiting \cup {worker[w]}
    /\ delay' = [delay EXCEPT ![worker[w]] = DelayFor(res, failures[worker[w]])]
    /\ failures' = [failures EXCEPT ![worker[w]] =
                       IF res.err # "nil" THEN Min(@ + 1, MaxFailures) ELSE @]
    /\ processing' = processing \ {worker[w]}
    /\ queue' = IF worker[w] \in dirty THEN Append(queue, worker[w]) ELSE queue
    /\ worker' = [worker EXCEPT ![w] = "idle"]
    /\ UNCHANGED <<dirty, adds, seen>>

\* Honour releasing the identity without putting it back on the queue
HonourDroppingDeferred(w, res) ==
    /\ worker[w] # "idle"
    /\ waiting' = IF res = ResultDone THEN waiting ELSE waiting \cup {worker[w]}
    /\ delay' = [delay EXCEPT ![worker[w]] = DelayFor(res, failures[worker[w]])]
    /\ failures' = [failures EXCEPT ![worker[w]] =
                       IF res.err # "nil" THEN Min(@ + 1, MaxFailures) ELSE 0]
    /\ processing' = processing \ {worker[w]}
    /\ queue' = queue
    /\ worker' = [worker EXCEPT ![w] = "idle"]
    /\ UNCHANGED <<dirty, adds, seen>>

\* the pass of worker w has returned res: the Scheduler honours the result (a
\* requeue after the backoff delay for a failure, after the delay asked for
\* otherwise, none for plain success), counts the failure or resets the count,
\* and releases the identity, which goes back on the queue if it was enqueued
\* in the meantime
Honour(w, res) ==
    /\ worker[w] # "idle"
    /\ waiting' = IF res = ResultDone THEN waiting ELSE waiting \cup {worker[w]}
    /\ delay' = [delay EXCEPT ![worker[w]] = DelayFor(res, failures[worker[w]])]
    /\ failures' = [failures EXCEPT ![worker[w]] =
                       IF res.err # "nil" THEN Min(@ + 1, MaxFailures) ELSE 0]
    /\ processing' = processing \ {worker[w]}
    /\ queue' = IF worker[w] \in dirty THEN Append(queue, worker[w]) ELSE queue
    /\ worker' = [worker EXCEPT ![w] = "idle"]
    /\ UNCHANGED <<dirty, adds, seen>>

\* a pass of the Scheduler's worker w ends with result res
Finish(w, res) ==
    /\ Honour(w, res)
    /\ UNCHANGED reconcileVars

\* the controller with no WebApp in the store yet
InitQueue ==
    /\ storeWebApp = NotFound
    /\ nextUid = 1
    /\ fresh = FALSE
    /\ InitRest

NextQueue ==
    \/ \E id \in Identities : Notify(id)
    \/ \E id \in Identities : TimerFires(id)
    \/ \E w \in Workers : Dequeue(w)
    \/ \E w \in Workers, res \in PassResults : Finish(w, res)

\* the Scheduler alone, each pass reduced to the result it returns
SpecQueue == InitQueue /\ [][NextQueue]_vars

\* the Scheduler with its workers running: every pass returns, and a worker
\* that is idle takes what the queue holds
SpecQueueFair ==
    /\ InitQueue
    /\ [][NextQueue]_vars
    /\ WF_vars(\E w \in Workers : Dequeue(w))
    /\ \A w \in Workers : WF_vars(\E res \in PassResults : Finish(w, res))

\* =============================================================== claims
Range(f) == {f[i] : i \in DOMAIN f}
LastOp(sq) == IF sq = << >> THEN "none" ELSE sq[Len(sq)]
Count(sq, o) == Cardinality({i \in DOMAIN sq : sq[i] = o})

\* the step appends a store write to the operations of the pass
IssuesWrite == ops' # ops /\ LastOp(ops') \in Writes

\* the pass returns in this step
Returns == pc # "done" /\ pc' = "done"

\* status st is what STEP 5 computes from Deployment d and WebApp w, whenever written
StatusReflects(st, d, w) ==
    /\ st.availableReplicas = d.availableReplicas
    /\ Len(st.conditions) = 1
    /\ st.conditions[1].type = "Ready"
    /\ st.conditions[1].status =
           (IF d.availableReplicas = w.spec.replicas THEN "True" ELSE "False")
    /\ st.conditions[1].reason =
           (IF d.availableReplicas = w.spec.replicas
            THEN "DeploymentReady" ELSE "DeploymentNotReady")
    /\ st.conditions[1].message = <<d.availableReplicas, w.spec.replicas>>

\* the system is converged: the Workload exists with the replica count of the
\* spec, the Exposure exists, the status reflects the Workload
Converged ==
    /\ storeWebApp # NotFound
    /\ storeDeployment # NotFound
    /\ storeDeployment.replicas = storeWebApp.spec.replicas
    /\ storeService # NotFound
    /\ StatusReflects(storeWebApp.status, storeDeployment, storeWebApp)

\* nothing the pass has read has changed in the store since
CurrentView == ~waStale /\ ~depStale

\* C1: Idempotence. A Reconcile pass on a converged system (the Workload has
\* the replica count of the spec, the Exposure exists, the status reflects the
\* Workload) issues no store write, and returns the periodic requeue directive.
C1_Idempotence ==
    [][(/\ Converged
        /\ CurrentView
        /\ pc \in {"GetWebApp", "GetDeployment", "GetService", "UpdateStatus"})
       => /\ ~IssuesWrite
          /\ (Returns /\ result'.err = "nil") => result' = ResultRequeueAfter]_vars

\* C2: Convergence. From a WebApp just applied, with replica count r and no
\* dependents, and with nobody interfering and no store failure, the first two
\* passes each create one dependent and requeue at once, and the third and every
\* later pass returns the periodic directive with the Workload at r replicas and
\* both dependents in the store; the Ready condition it writes is true when the
\* Workload it read reports r available replicas. No pass has replicas to update.
C2_Convergence ==
    /\ pc # "UpdateDeployment"
    /\ (fresh /\ pc = "done") =>
          /\ passes \in {1, 2} => result = ResultRequeue
          /\ passes >= 3 =>
                /\ result = [Requeue |-> FALSE, RequeueAfter |-> 30, err |-> "nil"]
                /\ storeDeployment # NotFound
                /\ storeDeployment.replicas = storeWebApp.spec.replicas
                /\ storeService # NotFound
                /\ Len(storeWebApp.status.conditions) = 1
                /\ deployment.availableReplicas = storeWebApp.spec.replicas
                      => storeWebApp.status.conditions[1].status = "True"

\* C2 witness: the third pass of an undisturbed start has returned the periodic
\* directive and written Ready = True.
C2_Witness ==
    /\ fresh /\ pc = "done" /\ passes = 3
    /\ result = ResultRequeueAfter
    /\ storeWebApp.status.conditions[1].status = "True"

\* C4: From a WebApp {replicas 3, image nginx:1.25, port 80} with no dependents:
\* pass 1 creates only the Workload (3 replicas, that image, port 80, owned by the
\* WebApp) and requeues at once; pass 2 creates only the Exposure (selector = the
\* Workload's labels, owned by the WebApp) and requeues at once; pass 3, reading 3
\* available replicas, writes status availableReplicas 3 with the one condition
\* Ready = True, reason DeploymentReady, and requeues after 30.
C4_NginxScenario ==
    (/\ fresh /\ pc = "done"
     /\ storeWebApp.spec = [image |-> "nginx:1.25", replicas |-> 3, port |-> 80,
                            env |-> << >>])
    => /\ passes = 1 =>
             /\ WritesOf(ops) = <<"createDeployment">>
             /\ storeDeployment # NotFound
             /\ storeDeployment.replicas = 3
             /\ storeDeployment.image = "nginx:1.25"
             /\ storeDeployment.containerPort = 80
             /\ storeDeployment.owner = storeWebApp.uid
             /\ storeService = NotFound
             /\ storeWebApp.status = EmptyStatus
             /\ result = [Requeue |-> TRUE, RequeueAfter |-> 0, err |-> "nil"]
       /\ passes = 2 =>
             /\ WritesOf(ops) = <<"createService">>
             /\ storeService # NotFound
             /\ storeService.selector = storeDeployment.labels
             /\ storeService.selector = storeDeployment.templateLabels
             /\ storeService.owner = storeWebApp.uid
             /\ storeWebApp.status = EmptyStatus
             /\ result = [Requeue |-> TRUE, RequeueAfter |-> 0, err |-> "nil"]
       /\ (passes = 3 /\ deployment.availableReplicas = 3) =>
             /\ WritesOf(ops) = <<"updateStatus">>
             /\ storeWebApp.status.availableReplicas = 3
             /\ Len(storeWebApp.status.conditions) = 1
             /\ storeWebApp.status.conditions[1].type = "Ready"
             /\ storeWebApp.status.conditions[1].status = "True"
             /\ storeWebApp.status.conditions[1].reason = "DeploymentReady"
             /\ result = [Requeue |-> FALSE, RequeueAfter |-> 30, err |-> "nil"]

\* C4 witness: pass 3 of the nginx scenario has finished, having read 3
\* available replicas.
C4_Witness ==
    /\ fresh /\ pc = "done" /\ passes = 3
    /\ storeWebApp.spec = [image |-> "nginx:1.25", replicas |-> 3, port |-> 80,
                           env |-> << >>]
    /\ deployment.availableReplicas = 3
    /\ storeService # NotFound

\* the Deployment the synthesizer owes WebApp w, field by field
ShapeOwed(d, w) ==
    /\ d.kind = "Deployment"
    /\ d.name = w.name
    /\ d.replicas = w.spec.replicas
    /\ d.image = w.spec.image
    /\ d.containerPort = (IF w.spec.port = 0 THEN 8080 ELSE w.spec.port)
    /\ Len(d.env) = Len(w.spec.env)
    /\ \A i \in DOMAIN d.env : /\ d.env[i].name = w.spec.env[i].name
                                /\ d.env[i].value = w.spec.env[i].value
    /\ d.labels = [l \in {"app", "managed-by"} |->
                     IF l = "app" THEN w.name ELSE "webapp-operator"]
    /\ d.selector = d.labels
    /\ d.templateLabels = d.labels
    /\ d.owner = w.uid
    /\ d.availableReplicas = 0

\* the pass found the WebApp but no Deployment, and returned without error
CreatedWorkload == pc = "done" /\ result.err = "nil" /\ dep # None

\* C3 as stated: when the Workload has been deleted out-of-band while its
\* Declaration still exists, the next pass recreates it with the same shape
\* (replicas, image, port, environment, labels, owner) as the original, and
\* requests an immediate requeue.
C3_ShapeOfOriginal ==
    (CreatedWorkload /\ origShape.owner = dep.owner)
    => /\ storeDeployment = origShape
       /\ result = ResultRequeue

\* C3 amended: a pass that finds the Declaration but no Workload creates the
\* Workload with the shape synthesized from the Declaration's spec as read in
\* that pass (replicas, image, port or 8080, environment, labels, owner),
\* writes nothing else and requests an immediate requeue.
C3_SelfHealing ==
    CreatedWorkload
    => /\ ShapeOwed(storeDeployment, webapp)
       /\ WritesOf(ops) = <<"createDeployment">>
       /\ result = [Requeue |-> TRUE, RequeueAfter |-> 0, err |-> "nil"]

\* C3 witness: a Workload has been recreated for a Declaration whose spec
\* changed after the original was created, so the two shapes differ.
C3_Witness ==
    /\ CreatedWorkload
    /\ origShape.owner = dep.owner
    /\ storeDeployment # origShape
    /\ storeWebApp # NotFound
    /\ storeWebApp.uid = dep.owner

\* C5 as stated: a pass that finds the Workload's replica count different from
\* the spec's sets it to the spec's, writes nothing else and requeues at once;
\* the following pass observes the match and proceeds to status computation.
C5_ThenStatus ==
    /\ (pc = "done" /\ result.err = "nil" /\ "updateDeployment" \in Range(ops))
          => /\ WritesOf(ops) = <<"updateDeployment">>
             /\ storeDeployment.replicas = webapp.spec.replicas
             /\ result = ResultRequeue
    /\ (pc = "done" /\ result.err = "nil" /\ prev)
          => "updateStatus" \in Range(ops)

\* C5 amended: a pass that finds the Workload's replica count different from the
\* spec's sets it to the spec's, changes nothing else in the store and requeues
\* at once; the following pass observes the match, leaves the Workload alone and
\* goes on to the Exposure check, reaching status computation in that pass when
\* the Exposure exists and creating the Exposure when it does not.
C5_ReplicaDrift ==
    [][/\ (pc = "GetDeployment" /\ storeDeployment # NotFound /\ pc' # "done"
           /\ storeDeployment.replicas # webapp.spec.replicas)
          => pc' \in {"GetDeployment", "UpdateDeployment"}
       /\ (pc = "UpdateDeployment" /\ Returns /\ result'.err = "nil")
          => /\ storeDeployment' =
                   [storeDeployment EXCEPT !.replicas = webapp.spec.replicas]
             /\ UNCHANGED <<storeWebApp, storeService>>
             /\ WritesOf(ops') = <<"updateDeployment">>
             /\ result' = [Requeue |-> TRUE, RequeueAfter |-> 0, err |-> "nil"]
       /\ (prev /\ pc = "GetDeployment" /\ pc' # "done")
          => pc' \in {"GetDeployment", "GetService"}
       /\ (prev /\ pc = "GetService" /\ pc' # "done")
          => pc' \in {"GetService",
                      IF storeService = NotFound THEN "CreateService" ELSE "UpdateStatus"}
       /\ (prev /\ Returns /\ result'.err = "nil")
          => LastWrite(ops') \in {"createService", "updateStatus"}]_vars

\* C5 witness: the pass after a replica update has gone on to write the status.
C5_Witness ==
    /\ pc = "done" /\ prev /\ result = ResultRequeueAfter
    /\ LastWrite(ops) = "updateStatus"
    /\ storeDeployment.replicas = storeWebApp.spec.replicas

\* C6: when the Declaration named by the identity is absent from the store, the
\* pass ends at its read of it: no store write, no error, and neither an
\* immediate nor a periodic requeue directive.
C6_AbsentDeclaration ==
    [][(pc = "GetWebApp" /\ storeWebApp = NotFound /\ pc' # "GetWebApp"
        /\ result'.err # "StoreError")
       => /\ pc' = "done"
          /\ result' = [Requeue |-> FALSE, RequeueAfter |-> 0, err |-> "nil"]
          /\ ops' = <<"getWebApp">>
          /\ UNCHANGED <<storeWebApp, storeDeployment, storeService>>]_vars

\* C6 witness: a pass has returned after finding no Declaration.
C6_Witness ==
    /\ pc = "done" /\ storeWebApp = NotFound
    /\ ops = <<"getWebApp">> /\ result = ResultDone

\* the store would refuse the pass's pending write
FailureDue ==
    \/ pc = "CreateDeployment" /\ storeDeployment # NotFound
    \/ pc = "UpdateDeployment" /\ (storeDeployment = NotFound \/ depStale)
    \/ pc = "CreateService" /\ storeService # NotFound
    \/ pc = "UpdateStatus" /\ (storeWebApp = NotFound \/ waStale)

\* C7: a store operation that fails (other than NotFound on a read) ends the
\* pass there: the error is what the pass returns, with no requeue directive;
\* the failed operation changes nothing in the store, the pass has written
\* nothing before it, so the Declaration is as it was, and nothing is issued
\* after it.
C7_FailureAborts ==
    /\ [][(FailureDue /\ pc' # pc) => (pc' = "done" /\ result'.err # "nil")]_vars
    /\ [][(Returns /\ result'.err # "nil")
           => /\ UNCHANGED <<storeWebApp, storeDeployment, storeService>>
              /\ WritesOf(ops) = << >>
              /\ ~result'.Requeue /\ result'.RequeueAfter = 0]_vars
    /\ [][pc = "done" => ops' \in {ops, << >>}]_vars
    /\ [](result.err # "nil" => pc = "done")

\* C7 witness: the status write has failed and the pass has returned the error.
C7_Witness ==
    /\ pc = "done" /\ result.err = "StoreError"
    /\ ops = <<"getWebApp", "getDeployment", "getService", "updateStatus">>

\* the store would answer the pass's pending update with Conflict
ConflictDue ==
    \/ pc = "UpdateDeployment" /\ storeDeployment # NotFound /\ depStale
    \/ pc = "UpdateStatus" /\ storeWebApp # NotFound /\ waStale

\* C8 as stated: a Conflict from the store on a Workload update or a status
\* update is never surfaced as a failure of the reconcile pass.
C8_ConflictNotSurfaced == pc = "done" => result.err # "Conflict"

\* C8 amended: a Conflict from the store on a Workload update or a status update
\* ends the pass like any other store failure: it is returned as the error of
\* the pass, with no requeue directive, the store is left as it was and the
\* update is not repeated within the pass.
C8_ConflictSurfaced ==
    [][(ConflictDue /\ pc' # pc)
       => /\ pc' = "done"
          /\ result'.err \in {"Conflict", "StoreError"}
          /\ ~result'.Requeue /\ result'.RequeueAfter = 0
          /\ UNCHANGED <<storeWebApp, storeDeployment, storeService>>
          /\ Count(ops', LastOp(ops')) = 1]_vars

\* C8 witness: a pass has returned Conflict from its status update.
C8_Witness ==
    /\ pc = "done" /\ result.err = "Conflict"
    /\ LastOp(ops) = "updateStatus"

\* C9: a pass issues at most one store write and repeats no store operation;
\* a write is the last thing a pass does, and after a create or a replica
\* update that succeeded the pass returns an immediate requeue.
C9_OneWritePerPass ==
    /\ Len(WritesOf(ops)) <= 1
    /\ \A o \in Range(ops) : Count(ops, o) = 1
    /\ WritesOf(ops) # << >> => pc = "done" /\ LastOp(ops) \in Writes
    /\ (pc = "done" /\ result.err = "nil"
        /\ LastOp(ops) \in {"createDeployment", "updateDeployment", "createService"})
          => result = [Requeue |-> TRUE, RequeueAfter |-> 0, err |-> "nil"]

\* C9 witness: a pass has created the Exposure and returned.
C9_Witness ==
    /\ pc = "done" /\ result = ResultRequeue
    /\ ops = <<"getWebApp", "getDeployment", "getService", "createService">>

\* C10: a status write that records the same readiness state as the one already
\* on the Declaration leaves the recorded last-transition timestamp unchanged.
C10_TimestampKept ==
    [][(/\ pc = "UpdateStatus" /\ Returns /\ result'.err = "nil"
        /\ storeWebApp.status.conditions # << >>
        /\ storeWebApp'.status.conditions[1].status
              = storeWebApp.status.conditions[1].status)
       => storeWebApp'.status.conditions[1].lastTransitionTime
             = storeWebApp.status.conditions[1].lastTransitionTime]_vars

\* C11: every status a pass writes has availableReplicas equal to the Workload's
\* available-replica count as read in that pass, and one Ready condition that is
\* True with reason DeploymentReady if and only if that count equals the spec
\* replica count of the Declaration, and False with reason DeploymentNotReady
\* otherwise.
C11_StatusWritten ==
    (pc = "done" /\ result.err = "nil" /\ LastOp(ops) = "updateStatus")
    => /\ storeWebApp # NotFound
       /\ storeWebApp.spec = webapp.spec
       /\ storeWebApp.status.availableReplicas = deployment.availableReplicas
       /\ Len(storeWebApp.status.conditions) = 1
       /\ storeWebApp.status.conditions[1].type = "Ready"
       /\ (storeWebApp.status.conditions[1].status = "True")
             <=> (deployment.availableReplicas = storeWebApp.spec.replicas)
       /\ (storeWebApp.status.conditions[1].status = "False")
             <=> (deployment.availableReplicas # storeWebApp.spec.replicas)
       /\ (storeWebApp.status.conditions[1].reason = "DeploymentReady")
             <=> (deployment.availableReplicas = storeWebApp.spec.replicas)
       /\ (storeWebApp.status.conditions[1].reason = "DeploymentNotReady")
             <=> (deployment.availableReplicas # storeWebApp.spec.replicas)

\* C11 witness: a pass has written Ready = False for a Workload reporting more
\* available replicas than the spec asks for.
C11_Witness ==
    /\ pc = "done" /\ result = ResultRequeueAfter
    /\ storeWebApp.status.availableReplicas = 5
    /\ storeWebApp.spec.replicas = 3
    /\ storeWebApp.status.conditions[1].status = "False"
    /\ storeWebApp.status.conditions[1].reason = "DeploymentNotReady"

\* C12 as stated: every pass that reaches the status write requests the periodic
\* requeue after 30, whether Ready is positive or negative and whatever the
\* result of the status write.
C12_PeriodicRegardless ==
    (pc = "done" /\ LastOp(ops) = "updateStatus")
    => (result.RequeueAfter = 30 /\ ~result.Requeue)

\* C12 amended: a pass whose status write succeeds requests the periodic requeue
\* after 30, whether the Ready condition it wrote is positive or negative; a
\* pass whose status write fails returns the error with no requeue directive.
C12_PeriodicOnSuccess ==
    (pc = "done" /\ LastOp(ops) = "updateStatus")
    => /\ result.err = "nil"
             => /\ result = [Requeue |-> FALSE, RequeueAfter |-> 30, err |-> "nil"]
                /\ storeWebApp.status.conditions[1].status \in {"True", "False"}
       /\ result.err # "nil"
             => (~result.Requeue /\ result.RequeueAfter = 0)

\* C12 witness: a pass has written a negative Ready condition and asked for the
\* periodic requeue.
C12_Witness ==
    /\ pc = "done" /\ LastOp(ops) = "updateStatus"
    /\ result.err = "nil" /\ result.RequeueAfter = 30
    /\ storeWebApp.status.conditions[1].status = "False"

\* C13: whenever a pass returns the periodic directive (and nobody has touched
\* the Workload since the pass read it), the Workload's replica count and its
\* container image both equal the Declaration's current spec, also after the
\* image of the spec was changed while the Workload already existed.
C13_WorkloadMatchesSpec ==
    (pc = "done" /\ result = ResultRequeueAfter /\ CurrentView)
    => /\ storeDeployment # NotFound
       /\ storeDeployment.replicas = storeWebApp.spec.replicas
       /\ storeDeployment.image = storeWebApp.spec.image

\* the step is a store operation of the running pass
PassStep == pc \notin {"idle", "done"} /\ ops' # ops

C15_SelectorMatchesLabels ==
    (storeDeployment # NotFound /\ storeService # NotFound)
    => storeService.selector = storeDeployment.labels

\* C15 amended: in every reachable state in which both dependents exist and
\* both were created by Reconcile (they carry the owner reference it sets), the
\* selector of the Exposure equals the label set of the Workload: the labels of
\* the object, of its selector and of its pod template.
C15_CreatedSelectorMatches ==
    (/\ storeDeployment # NotFound /\ storeDeployment.owner # 0
     /\ storeService # NotFound /\ storeService.owner # 0)
    => /\ storeService.selector = storeDeployment.labels
       /\ storeService.selector = storeDeployment.selector
       /\ storeService.selector = storeDeployment.templateLabels
       /\ DOMAIN storeService.selector = {"app", "managed-by"}

\* C15 witness: the two dependents in the store were created by passes for
\* different incarnations and different specs of the Declaration.
C15_Witness ==
    /\ storeDeployment # NotFound /\ storeService # NotFound
    /\ storeDeployment.owner # 0 /\ storeService.owner # 0
    /\ storeService.owner # storeDeployment.owner
    /\ storeService.targetPort # storeDeployment.containerPort

\* C16: the Exposure is reconciled for existence only: no store operation of a
\* pass changes an Exposure that exists, whatever its selector or ports, even
\* when they differ from the shape synthesized from the Declaration's spec.
C16_ExistenceOnly ==
    [][(PassStep /\ storeService # NotFound) => storeService' = storeService]_vars

\* C16 witness: a pass has run to its status write on an Exposure whose selector
\* and ports are not those synthesized from the spec.
C16_Witness ==
    /\ pc = "done" /\ result = ResultRequeueAfter
    /\ storeService # NotFound
    /\ storeService.selector # Labels(storeWebApp.name)
    /\ storeService.targetPort # PortOrDefault(storeWebApp.spec.port)
    /\ storeService.port # ServicePort
\* C17: Reconcile never modifies the spec of the Declaration: no store operation
\* of a pass removes the Declaration or changes its image, replica count, port,
\* environment entries, name or uid; the one write it makes to the Declaration
\* is the status update, which changes the status alone.
C17_SpecUntouched ==
    [][(PassStep /\ storeWebApp # NotFound)
       => /\ storeWebApp' # NotFound
          /\ storeWebApp'.spec = storeWebApp.spec
          /\ storeWebApp'.name = storeWebApp.name
          /\ storeWebApp'.uid = storeWebApp.uid
          /\ storeWebApp'.status # storeWebApp.status
                => (pc = "UpdateStatus" /\ LastOp(ops') = "updateStatus")]_vars

\* C17 witness: a pass has written the status of a Declaration whose spec leaves
\* the port unset and has environment entries.
C17_Witness ==
    /\ pc = "done" /\ result = ResultRequeueAfter
    /\ LastOp(ops) = "updateStatus"
    /\ storeWebApp.spec.port = 0
    /\ storeWebApp.spec.env # << >>
    /\ storeWebApp.status.conditions # << >>

\* the dependent d carries an owner reference to a Declaration that is gone
Orphan(d) == d # NotFound /\ d.owner # 0 /\ ~OwnerAlive(d.owner)

\* C18 as stated: every dependent Reconcile creates carries an owner reference
\* to its Declaration, and reconciliation of a deleted identity never creates a
\* dependent, also when the deletion falls between a pass's read of the
\* Declaration and its create.
C18_NeverRecreated ==
    [][(PassStep /\ storeWebApp = NotFound)
       => UNCHANGED <<storeDeployment, storeService>>]_vars

\* C18 amended: every dependent Reconcile creates carries an owner reference to
\* the Declaration the pass read; a pass that reads the identity after the
\* deletion creates nothing; a pass that read the Declaration before it was
\* deleted may still create a dependent after the deletion, owned by the deleted
\* Declaration; and every dependent whose owner is gone is removed by the
\* store's cascade in the end.
C18_Cascade ==
    /\ [][(PassStep /\ storeDeployment = NotFound /\ storeDeployment' # NotFound)
           => (webapp # None /\ storeDeployment'.owner = webapp.uid
               /\ storeDeployment'.owner # 0)]_vars
    /\ [][(PassStep /\ storeService = NotFound /\ storeService' # NotFound)
           => (webapp # None /\ storeService'.owner = webapp.uid
               /\ storeService'.owner # 0)]_vars
    /\ [][(PassStep /\ storeWebApp = NotFound /\ webapp = None)
           => (pc' = "done" /\ UNCHANGED <<storeDeployment, storeService>>)]_vars
    /\ Orphan(storeDeployment) ~> (storeDeployment = NotFound)
    /\ Orphan(storeService) ~> (storeService = NotFound)

\* C18 witness: a pass that read the Declaration before it was deleted has
\* created the Workload after the deletion, owned by the deleted Declaration.
C18_Witness ==
    /\ pc = "done" /\ result = ResultRequeue
    /\ LastOp(ops) = "createDeployment"
    /\ storeWebApp = NotFound
    /\ storeDeployment # NotFound
    /\ storeDeployment.owner = webapp.uid

\* C19: Coalescing. However many times an identity is enqueued before it is
\* dequeued, the queue holds one entry for it: no identity is in the queue
\* twice, the queue is never longer than the number of identities, an identity
\* enqueued since its last dequeue is pending, and it is in the queue exactly
\* once unless a worker holds it, when its one entry is the deferred mark.
C19_Coalescing ==
    /\ \A id \in Identities : Count(queue, id) <= 1
    /\ Len(queue) <= Cardinality(Identities)
    /\ Range(queue) \subseteq dirty
    /\ \A id \in Identities :
          adds[id] >= 1
          => /\ id \in dirty
             /\ id \notin processing => Count(queue, id) = 1
             /\ id \in processing => Count(queue, id) = 0

\* C19 witness: an identity enqueued twice since its last dequeue is in the
\* queue once, behind another identity.
C19_Witness ==
    \E id \in Identities :
        /\ adds[id] >= 2
        /\ Count(queue, id) = 1
        /\ Len(queue) = 2

\* C20: with several workers draining the queue, no two workers run a pass for
\* the same identity at the same time, and the identities in flight are those
\* the workers hold; an identity in flight is not in the queue.
C20_OnePassPerIdentity ==
    /\ \A w1, w2 \in Workers :
          (w1 # w2 /\ worker[w1] # "idle") => worker[w1] # worker[w2]
    /\ processing = {worker[w] : w \in Workers} \ {"idle"}
    /\ \A id \in processing : Count(queue, id) = 0

\* C20 witness: an identity was enqueued again while a worker holds it, and
\* another worker is idle.
C20_Witness ==
    \E w1, w2 \in Workers :
        /\ worker[w1] # "idle"
        /\ worker[w2] = "idle"
        /\ worker[w1] \in dirty
        /\ adds[worker[w1]] >= 1

\* ------------------------------------------- the controller as a whole
\* The controller that main.go sets up: the watches of SetupWithManager feed
\* the work queue, and one worker takes the WebApp's identity from it, runs
\* Reconcile and hands the result back.

\* the watch on WebApps (For) sees the store's WebApp differ from what it saw
\* last, and enqueues its identity
InformWebApp ==
    /\ seen.webapp # storeWebApp
    /\ seen' = [seen EXCEPT !.webapp = storeWebApp]
    /\ Enqueue(ReqName)
    /\ UNCHANGED <<processing, worker, waiting, failures, delay, reconcileVars>>

\* does the object d carry an owner reference to a WebApp
Owned(d) == d # NotFound /\ d.owner # 0

\* the watch on Deployments left out of SetupWithManager: a change to the
\* Deployment is seen and enqueues nothing
InformDeploymentUnwatched ==
    /\ seen.deployment # storeDeployment
    /\ seen' = [seen EXCEPT !.deployment = storeDeployment]
    /\ UNCHANGED <<queue, dirty, adds>>
    /\ UNCHANGED <<processing, worker, waiting, failures, delay, reconcileVars>>

\* the watch on Deployments (Owns) sees the store's Deployment differ from
\* what it saw last (changed, deleted or new), and enqueues the owner that the
\* object's owner reference names, if it has one
InformDeployment ==
    /\ seen.deployment # storeDeployment
    /\ seen' = [seen EXCEPT !.deployment = storeDeployment]
    /\ IF Owned(storeDeployment) \/ Owned(seen.deployment)
       THEN Enqueue(ReqName)
       ELSE UNCHANGED <<queue, dirty, adds>>
    /\ UNCHANGED <<processing, worker, waiting, failures, delay, reconcileVars>>

\* the watch on Services (Owns), likewise
InformService ==
    /\ seen.service # storeService
    /\ seen' = [seen EXCEPT !.service = storeService]
    /\ IF Owned(storeService) \/ Owned(seen.service)
       THEN Enqueue(ReqName)
       ELSE UNCHANGED <<queue, dirty, adds>>
    /\ UNCHANGED <<processing, worker, waiting, failures, delay, reconcileVars>>

\* the worker takes the identity at the head of the queue
WorkerTakes ==
    /\ pc = "idle"
    /\ Dequeue(1)

\* the worker calls Reconcile for the identity it took
WorkerCalls ==
    /\ worker[1] = ReqName
    /\ StartReconcile

\* Reconcile has returned: the worker hands its result to the queue
WorkerReturns ==
    /\ pc = "done"
    /\ worker[1] = ReqName
    /\ Finish(1, result)

\* the worker is done with the call
WorkerEnds ==
    /\ worker[1] = "idle"
    /\ EndReconcile

\* the one worker of the controller
Worker ==
    \/ WorkerTakes
    \/ WorkerCalls
    \/ Reconcile
    \/ WorkerReturns
    \/ WorkerEnds

\* the watches of the controller
Inform ==
    \/ InformWebApp
    \/ InformDeployment
    \/ InformService

\* the example WebApp of the README
SampleSpec == [image |-> "nginx:1.25", replicas |-> 3, port |-> 80, env |-> << >>]

\* kubectl apply -f examples/nginx-webapp.yaml, and then the operator starts
InitSample ==
    /\ storeWebApp = NewWebApp(SampleSpec, 1)
    /\ nextUid = 2
    /\ fresh = FALSE
    /\ InitRest

\* out-of-band changes while the controller runs, MaxTampering of them at most
TamperScale(n) ==
    /\ changes < MaxTampering
    /\ ScaleDeployment(n)

TamperDeleteDeployment ==
    /\ changes < MaxTampering
    /\ DeleteDeployment

TamperDeleteService ==
    /\ changes < MaxTampering
    /\ DeleteService

TamperDeleteWebApp ==
    /\ changes < MaxTampering
    /\ UserDeleteWebApp

\* the controller, its store failing at will, and a user who may scale the
\* Deployment or delete the WebApp
NextController ==
    \/ Inform
    \/ TimerFires(ReqName)
    \/ Worker
    \/ \E n \in ReplicaCounts : TamperScale(n)
    \/ TamperDeleteWebApp

\* the controller, its store failing at will, and a user who may change or
\* delete a dependent
NextWatch ==
    \/ Inform
    \/ TimerFires(ReqName)
    \/ Worker
    \/ \E n \in ReplicaCounts : TamperScale(n)
    \/ TamperDeleteDeployment
    \/ TamperDeleteService

\* The worker keeps working, the watches keep delivering and a delayed requeue
\* comes due.
SpecController ==
    /\ InitSample
    /\ [][NextController]_vars
    /\ WF_vars(Worker)
    /\ WF_vars(Inform)
    /\ WF_vars(TimerFires(ReqName))

\* The worker keeps working and the watches keep delivering; nothing is said
\* about when a delayed requeue comes due.
SpecWatch ==
    /\ InitSample
    /\ [][NextWatch]_vars
    /\ WF_vars(Worker)
    /\ WF_vars(Inform)

\* C21: an enqueue for an identity that a worker is processing is deferred, not
\* dropped: the identity stays marked and out of the queue while the pass runs,
\* goes on the queue when the pass finishes, and a further pass for it starts
\* after that.
C21_Deferred ==
    /\ [](\A id \in Identities :
            (id \in processing /\ adds[id] >= 1)
            => (id \in dirty /\ Count(queue, id) = 0))
    /\ [][\A w \in Workers :
            (worker[w] # "idle" /\ worker'[w] = "idle" /\ adds[worker[w]] >= 1)
            => Count(queue', worker[w]) = 1]_vars
    /\ \A id \in Identities :
          (id \in processing /\ adds[id] >= 1)
          ~> (id \in processing /\ adds[id] = 0 /\ id \notin dirty)

\* C21 witness: both workers are running passes, and the identity of one of
\* them has been enqueued twice since its pass began.
C21_Witness ==
    /\ \A w \in {1, 2} : worker[w] # "idle"
    /\ \E id \in processing : adds[id] >= 2 /\ id \in dirty

\* C22: the retry delay after a failed pass is the base delay when the pass
\* before it for the same identity did not fail, twice the delay before it when
\* that pass failed too, never less than the delay before it and never more
\* than the cap; a pass that succeeds resets the count, so the next failure
\* starts from the base delay again. (A delay of 0 or of the periodic interval
\* is the delay of a pass that did not fail: no retry delay has those values.)
C22_BackoffMonotone ==
    [][\A w \in Workers :
        (worker[w] # "idle" /\ worker'[w] = "idle")
        => LET id == worker[w] IN
           IF delay'[id] \in {0, RequeueInterval}
           THEN failures'[id] = 0
           ELSE /\ delay'[id] <= BackoffCap
                /\ delay[id] \in {0, RequeueInterval} => delay'[id] = BackoffBase
                /\ delay[id] \notin {0, RequeueInterval}
                   => /\ delay'[id] >= delay[id]
                      /\ delay'[id] = Min(2 * delay[id], BackoffCap)]_vars

\* C22 witness: one identity has failed often enough to wait the capped delay,
\* the other failed once after a success and waits the base delay.
C22_Witness ==
    /\ delay[ReqName] = BackoffCap
    /\ failures[ReqName] = MaxFailures
    /\ \E id \in Identities \ {ReqName} :
          delay[id] = BackoffBase /\ failures[id] = 1

\* C23: there is no retry ceiling. A pass that fails is followed by a delayed
\* requeue of the identity however many passes have failed before it; and if
\* from some time on the WebApp exists and no pass fails, then passes that
\* write the status and return the periodic requeue keep happening.
C23_NoRetryCeiling ==
    /\ [][(pc = "done" /\ worker[1] = ReqName /\ worker'[1] = "idle"
           /\ result.err # "nil")
          => ReqName \in waiting']_vars
    /\ (<>[](storeWebApp # NotFound /\ result.err = "nil"))
       => []<>(/\ pc = "done"
               /\ result = ResultRequeueAfter
               /\ LastOp(ops) = "updateStatus")

\* C23 witness: after as many failed passes in a row as the model counts, a
\* pass has written the status and returns the periodic requeue.
C23_Witness ==
    /\ failures[ReqName] = MaxFailures
    /\ worker[1] = ReqName
    /\ pc = "done"
    /\ result = ResultRequeueAfter
    /\ LastOp(ops) = "updateStatus"

\* C24: when a watch sees a change to, or the deletion of, a Deployment or
\* Service with an owner reference, the owner's identity goes through the same
\* coalescing enqueue as for a change to the WebApp; and a dependent deleted
\* out-of-band leads to the worker taking the WebApp's identity for a pass (or
\* to a pass already running having put the dependent back), with no delayed
\* requeue needing to come due.
C24_DependentsEnqueueOwner ==
    /\ [][((seen'.deployment # seen.deployment
            /\ (Owned(seen.deployment) \/ Owned(seen'.deployment)))
          \/ (seen'.service # seen.service
              /\ (Owned(seen.service) \/ Owned(seen'.service))))
         => /\ dirty' = dirty \cup {ReqName}
            /\ queue' = IF ReqName \in dirty \/ ReqName \in processing
                        THEN queue ELSE Append(queue, ReqName)
            /\ waiting' = waiting]_vars
    /\ (Owned(seen.deployment) /\ storeDeployment = NotFound)
         ~> ((worker[1] = ReqName /\ pc = "idle") \/ storeDeployment # NotFound)
    /\ (Owned(seen.service) /\ storeService = NotFound)
         ~> ((worker[1] = ReqName /\ pc = "idle") \/ storeService # NotFound)

\* C24 witness: the Deployment was deleted after a pass that returned the
\* periodic requeue, the watch has seen it, and the worker has taken the
\* identity for a pass while the delayed requeue is still waiting.
C24_Witness ==
    /\ storeDeployment = NotFound
    /\ seen.deployment = NotFound
    /\ storeService # NotFound
    /\ worker[1] = ReqName
    /\ pc = "idle"
    /\ ReqName \in waiting
    /\ delay[ReqName] = RequeueInterval

\* C25: the Deployment a pass creates has as container port, and the Service a
\* pass creates has as target port, the port of the spec the pass read when
\* that is not 0 and 8080 when it is; the Service's own port is 80 whatever
\* the spec says.
C25_PortSynthesis ==
    [][/\ (PassStep /\ pc = "CreateDeployment" /\ storeDeployment' # storeDeployment)
          => storeDeployment'.containerPort =
                IF webapp.spec.port # 0 THEN webapp.spec.port ELSE DefaultPort
       /\ (PassStep /\ pc = "CreateService" /\ storeService' # storeService)
          => /\ storeService'.targetPort =
                   IF webapp.spec.port # 0 THEN webapp.spec.port ELSE DefaultPort
             /\ storeService'.port = ServicePort]_vars

\* C25 witness: for a WebApp whose spec leaves the port unset, passes have
\* created the Deployment with container port 8080 and the Service with port
\* 80 and target port 8080.
C25_Witness ==
    /\ storeWebApp # NotFound
    /\ storeWebApp.spec.port = 0
    /\ storeDeployment # NotFound
    /\ storeDeployment.owner = storeWebApp.uid
    /\ storeDeployment.containerPort = 8080
    /\ storeService # NotFound
    /\ storeService.owner = storeWebApp.uid
    /\ storeService.port = 80
    /\ storeService.targetPort = 8080

\* C26: the status of the WebApp never holds more than one condition of a type:
\* its list is empty or is the one Ready condition, and a status write puts
\* the one condition the pass computed in place of whatever list was there.
C26_OneConditionPerType ==
    /\ [](storeWebApp # NotFound
          => /\ Len(storeWebApp.status.conditions) <= 1
             /\ \A i \in DOMAIN storeWebApp.status.conditions :
                   storeWebApp.status.conditions[i].type = "Ready")
    /\ [][(pc = "UpdateStatus" /\ Returns /\ result'.err = "nil")
          => storeWebApp'.status.conditions
                = <<ReadyCondition(deployment, webapp, webapp.status.conditions[1]
                                                          .lastTransitionTime)>>]_vars

\* C26 witness: the WebApp in the store carries Ready = False, and the pass,
\* which read it so, has replaced the list on its copy by the one condition
\* Ready = True and is about to write it.
C26_Witness ==
    /\ pc = "UpdateStatus"
    /\ ~waStale
    /\ Len(storeWebApp.status.conditions) = 1
    /\ storeWebApp.status.conditions[1].status = "False"
    /\ Len(webapp.status.conditions) = 1
    /\ webapp.status.conditions[1].status = "True"

\* C27: a pass returns one of four outcomes. No error and no requeue, only
\* when the read of the WebApp found it absent; no error and an immediate
\* requeue, only when its last operation was a create or a replica update that
\* succeeded; no error and a requeue after 30, only when its last operation was
\* a status write that succeeded; or an error, which carries neither requeue.
\* The immediate and the periodic requeue are never asked for together.
C27_FourOutcomes ==
    pc = "done" =>
        /\ ~(result.Requeue /\ result.RequeueAfter > 0)
        /\ result.err # "nil" => (~result.Requeue /\ result.RequeueAfter = 0)
        /\ result.err = "nil" =>
              \/ /\ result = ResultDone
                 /\ ops = <<"getWebApp">>
                 /\ storeWebApp = NotFound
              \/ /\ result = ResultRequeue
                 /\ \/ LastOp(ops) = "createDeployment" /\ storeDeployment = dep
                    \/ LastOp(ops) = "updateDeployment" /\ storeDeployment = deployment
                    \/ /\ LastOp(ops) = "createService"
                       /\ storeService = serviceForWebApp(webapp)
              \/ /\ result = ResultRequeueAfter
                 /\ LastOp(ops) = "updateStatus"
                 /\ storeWebApp # NotFound
                 /\ storeWebApp.status = webapp.status

\* C27 witness: a pass has corrected the replica count of the Deployment and
\* returns the immediate requeue.
C27_Witness ==
    /\ pc = "done"
    /\ result = ResultRequeue
    /\ ops = <<"getWebApp", "getDeployment", "updateDeployment">>

\* C28: a pass issues the status write only after it found the Deployment with
\* the replica count of the spec it read and found the Service, having written
\* nothing else; and the status of a WebApp changes in no other step. So a pass
\* that finds the Deployment absent or corrects its replica count leaves on the
\* WebApp whatever status an earlier pass wrote.
C28_StatusOnlyWhenInShape ==
    [][/\ (PassStep /\ LastOp(ops') = "updateStatus")
          => /\ ops' = <<"getWebApp", "getDeployment", "getService", "updateStatus">>
             /\ deployment.kind = "Deployment"
             /\ deployment.replicas = webapp.spec.replicas
       /\ (/\ storeWebApp # NotFound
           /\ storeWebApp' # NotFound
           /\ storeWebApp'.uid = storeWebApp.uid
           /\ storeWebApp'.status # storeWebApp.status)
          => (PassStep /\ LastOp(ops') = "updateStatus")]_vars

\* C28 witness: a pass found the Deployment absent and has created it anew,
\* with no replica available yet, and the WebApp still carries the status of
\* an earlier pass: 3 available replicas, Ready = True.
C28_Witness ==
    /\ pc = "done"
    /\ result = ResultRequeue
    /\ LastOp(ops) = "createDeployment"
    /\ storeWebApp # NotFound
    /\ storeDeployment.availableReplicas = 0
    /\ storeWebApp.status.availableReplicas = 3
    /\ storeWebApp.status.conditions # << >>
    /\ storeWebApp.status.conditions[1].status = "True"

\* is d a Deployment or Service of the WebApp's name that carries no owner
\* reference to the WebApp w
NotOwnedBy(d, w) ==
    /\ w.kind = "WebApp"
    /\ d.kind \in {"Deployment", "Service"}
    /\ d.owner # w.uid

\* C29: a Deployment or Service of the WebApp's name that carries no owner
\* reference to the WebApp is the dependent for Reconcile. A pass that finds
\* it goes on to no Create; if the replica count of the Deployment differs from
\* the spec's the pass writes the Deployment back with that count changed and
\* nothing else; the status the pass writes takes its available replicas from
\* that Deployment; and no step of a pass changes the owner reference of a
\* Deployment or a Service in the store.
C29_ByNameOnly ==
    [][PassStep =>
        /\ (pc = "GetDeployment" /\ NotOwnedBy(storeDeployment, webapp)
            /\ pc' # "done")
           => /\ pc' = IF storeDeployment.replicas # webapp.spec.replicas
                       THEN "UpdateDeployment" ELSE "GetService"
              /\ deployment'.owner = storeDeployment.owner
        /\ (pc = "GetService" /\ NotOwnedBy(storeService, webapp) /\ pc' # "done")
           => pc' = "UpdateStatus"
        /\ (NotOwnedBy(storeDeployment, webapp) /\ storeDeployment' # storeDeployment)
           => /\ pc = "UpdateDeployment"
              /\ storeDeployment' =
                    [storeDeployment EXCEPT !.replicas = webapp.spec.replicas]
        /\ NotOwnedBy(storeService, webapp) => storeService' = storeService
        /\ (pc = "UpdateStatus" /\ NotOwnedBy(deployment, webapp)
            /\ result'.err = "nil")
           => storeWebApp'.status.availableReplicas = deployment.availableReplicas]_vars

\* C29 witness: somebody else's Deployment and Service stand under the WebApp's
\* name; passes have set the Deployment's replica count to the spec's 3 and
\* written the status from it, and both still carry no owner reference.
C29_Witness ==
    /\ pc = "done"
    /\ result = ResultRequeueAfter
    /\ storeDeployment # NotFound
    /\ storeDeployment.owner = 0
    /\ storeDeployment.image = "legacy:1"
    /\ storeDeployment.replicas = 3
    /\ storeService # NotFound
    /\ storeService.owner = 0
    /\ storeWebApp.spec.replicas = 3
    /\ storeWebApp.status.availableReplicas = 3
    /\ storeWebApp.status.conditions[1].status = "True"

\* C30: the status a pass writes is the one it computed from the WebApp it
\* read at its start; the store takes the write only if the WebApp has not
\* been modified since that read and fails it otherwise, leaving the WebApp as
\* it is. So whenever a status is committed, its Ready condition is True exactly
\* if the available replicas the pass read equal the replica count of the spec
\* in the store at that moment, also when a user changes the spec while the
\* pass runs.
C30_StatusAgainstCurrentSpec ==
    [][(PassStep /\ pc = "UpdateStatus") =>
        /\ waStale => (result'.err # "nil" /\ storeWebApp' = storeWebApp)
        /\ result'.err = "nil" =>
              /\ webapp.spec = storeWebApp.spec
              /\ webapp.uid = storeWebApp.uid
              /\ storeWebApp' = [storeWebApp EXCEPT !.status = webapp.status]
              /\ webapp.status.conditions[1].status =
                    IF deployment.availableReplicas = storeWebApp'.spec.replicas
                    THEN "True" ELSE "False"]_vars

\* C30 witness: a pass read the WebApp asking for 3 replicas and computed
\* Ready = True from 3 available; the user then changed the spec to 5 replicas,
\* and the status write of the pass has been refused with a Conflict.
C30_Witness ==
    /\ pc = "done"
    /\ LastOp(ops) = "updateStatus"
    /\ result = ResultError("Conflict")
    /\ webapp.spec.replicas = 3
    /\ webapp.status.conditions[1].status = "True"
    /\ storeWebApp.spec.replicas = 5
    /\ storeWebApp.status # webapp.status

====
